---- MODULE Spec2Model ----
(***************************************************************************)
(* Model of the two entry points of the repository:                        *)
(*   - the login-verification program (testLogin and its main loop),       *)
(*   - the bot-detection program (index.ts main, testGoogleSearch) and     *)
(*     the utilities it uses (createBrowser, takeScreenshot).              *)
(* Every remote call (session API, browser driver) is an environment       *)
(* choice between resolving and rejecting.  Strings that the code          *)
(* transforms (site names, file names) are sequences of character codes.   *)
(***************************************************************************)
EXTENDS Integers, Sequences, FiniteSets, TLC

VARIABLES
    prog,         \* which entry point runs: "login" or "bot"
    env,          \* process.env: the two credentials read at startup
    sites,        \* the list of targets (sites / testSites)
    idx,          \* position of the for-of loop in the list (1-based)
    pc,           \* the statement the (single-threaded) program is at
    started,      \* indexes of the targets whose run was started
    results,      \* per target, whether `await testLogin(site)` gave main a
                  \* result, and for which site
    created,      \* per session slot, number of bb.sessions.create that resolved
    closed,       \* per session slot, number of browser.close() calls
    browser,      \* the browser handle: "none", "open" or "closed"
    files,        \* paths that hold a stored image
    overwritten,  \* paths that were written again after being stored
    clock,        \* Date.now(): [day, ms], days since the epoch and
                  \* milliseconds of that day
    timed,        \* number of awaits so far that took longer than the least
                  \* time they can take
    exc,          \* the exception in flight ("none" when there is none)
    ret,          \* the value a return statement has put in flight
    success,      \* testLogin: let success
    message,      \* testLogin: let message
    pSucc,        \* the wait for site.successIndicator: "none", "pending",
                  \* "resolved", or the error it rejected with
    pFail,        \* the same for the wait for site.failureIndicator
    race,         \* state of the Promise.race promise
    firstSettled, \* the first of the two waits that settled, and how
    polled,       \* page.$(site.successIndicator) was called for this target
    succPresent,  \* the success indicator is in the page
    failPresent,  \* the failure indicator is in the page
    shots,        \* screenshot attempts of the current target, in order
    steps,        \* the awaited calls of the current target from the try block
                  \* on, in the order they were made, each with whether it
                  \* resolved
    faults,       \* number of calls the environment has made fail so far
    completed     \* the completion message of main was printed

vars == <<prog, env, sites, idx, pc, started, results, created, closed, browser,
          files, overwritten, clock, timed, exc, ret, success, message,
          pSucc, pFail, race,
          firstSettled, polled, succPresent, failPresent, shots, steps, faults,
          completed>>

(***************************************************************************)
(* Bounds and input sets.                                                  *)
(***************************************************************************)
MaxSites == 2

\* the environment makes at most MaxFaults calls fail in one run
MaxFaults == 2

\* at most MaxTimed awaits of one run take longer than the least time they
\* can take (a call that returns at once, a timer that fires on time after
\* the shortest delay)
MaxTimed == 2

\* "Ab", "ab" and "\u00c0/../a \u00a0b" (a non-ASCII capital, path segments,
\* a run of a space and a no-break space) as code points
SiteNames == { <<65, 98>>, <<97, 98>>, <<192, 47, 46, 46, 47, 97, 32, 160, 98>> }

\* The targets a list is drawn from.  failureIndicator / beforeLogin say
\* whether the optional field of LoginSite is defined.
SiteSet ==
    { [name |-> <<65, 98>>,         failureIndicator |-> FALSE, beforeLogin |-> FALSE],
      [name |-> <<97, 98>>,         failureIndicator |-> TRUE,  beforeLogin |-> FALSE],
      [name |-> <<192, 47, 46, 46, 47, 97, 32, 160, 98>>,
                                    failureIndicator |-> TRUE,  beforeLogin |-> TRUE] }

SiteLists == UNION { [1..n -> SiteSet] : n \in 0..MaxSites }

\* const testSites of index.ts: "SannySoft Bot Detection" and "NowSecure"
testSites ==
    << [name |-> <<83, 97, 110, 110, 121, 83, 111, 102, 116, 32, 66, 111, 116, 32, 68,
              101, 116, 101, 99, 116, 105, 111, 110>>],
       [name |-> <<78, 111, 119, 83, 101, 99, 117, 114, 101>>] >>

(***************************************************************************)
(* String helpers.                                                         *)
(***************************************************************************)
\* Strings are sequences of Unicode code points.
\* The simple lower-case mappings of the Unicode Character Database
\* (Unicode 17): <<first, last, step, delta>> maps the code points first,
\* first + step, ..., last to themselves plus delta.
LowerRanges ==
    {
      <<65, 90, 1, 32>>, <<192, 214, 1, 32>>, <<216, 222, 1, 32>>, <<256, 302, 2, 1>>,
      <<306, 310, 2, 1>>, <<313, 327, 2, 1>>, <<330, 374, 2, 1>>, <<376, 376, 1, -121>>,
      <<377, 381, 2, 1>>, <<385, 385, 1, 210>>, <<386, 388, 2, 1>>, <<390, 390, 1, 206>>,
      <<391, 391, 1, 1>>, <<393, 394, 1, 205>>, <<395, 395, 1, 1>>, <<398, 398, 1, 79>>,
      <<399, 399, 1, 202>>, <<400, 400, 1, 203>>, <<401, 401, 1, 1>>, <<403, 403, 1, 205>>,
      <<404, 404, 1, 207>>, <<406, 406, 1, 211>>, <<407, 407, 1, 209>>, <<408, 408, 1, 1>>,
      <<412, 412, 1, 211>>, <<413, 413, 1, 213>>, <<415, 415, 1, 214>>, <<416, 420, 2, 1>>,
      <<422, 422, 1, 218>>, <<423, 423, 1, 1>>, <<425, 425, 1, 218>>, <<428, 428, 1, 1>>,
      <<430, 430, 1, 218>>, <<431, 431, 1, 1>>, <<433, 434, 1, 217>>, <<435, 437, 2, 1>>,
      <<439, 439, 1, 219>>, <<440, 440, 1, 1>>, <<444, 444, 1, 1>>, <<452, 452, 1, 2>>,
      <<453, 453, 1, 1>>, <<455, 455, 1, 2>>, <<456, 456, 1, 1>>, <<458, 458, 1, 2>>,
      <<459, 475, 2, 1>>, <<478, 494, 2, 1>>, <<497, 497, 1, 2>>, <<498, 500, 2, 1>>,
      <<502, 502, 1, -97>>, <<503, 503, 1, -56>>, <<504, 542, 2, 1>>, <<544, 544, 1, -130>>,
      <<546, 562, 2, 1>>, <<570, 570, 1, 10795>>, <<571, 571, 1, 1>>, <<573, 573, 1, -163>>,
      <<574, 574, 1, 10792>>, <<577, 577, 1, 1>>, <<579, 579, 1, -195>>, <<580, 580, 1, 69>>,
      <<581, 581, 1, 71>>, <<582, 590, 2, 1>>, <<880, 882, 2, 1>>, <<886, 886, 1, 1>>,
      <<895, 895, 1, 116>>, <<902, 902, 1, 38>>, <<904, 906, 1, 37>>, <<908, 908, 1, 64>>,
      <<910, 911, 1, 63>>, <<913, 929, 1, 32>>, <<931, 939, 1, 32>>, <<975, 975, 1, 8>>,
      <<984, 1006, 2, 1>>, <<1012, 1012, 1, -60>>, <<1015, 1015, 1, 1>>, <<1017, 1017, 1, -7>>,
      <<1018, 1018, 1, 1>>, <<1021, 1023, 1, -130>>, <<1024, 1039, 1, 80>>, <<1040, 1071, 1, 32>>,
      <<1120, 1152, 2, 1>>, <<1162, 1214, 2, 1>>, <<1216, 1216, 1, 15>>, <<1217, 1229, 2, 1>>,
      <<1232, 1326, 2, 1>>, <<1329, 1366, 1, 48>>, <<4256, 4293, 1, 7264>>, <<4295, 4295, 1, 7264>>,
      <<4301, 4301, 1, 7264>>, <<5024, 5103, 1, 38864>>, <<5104, 5109, 1, 8>>, <<7305, 7305, 1, 1>>,
      <<7312, 7354, 1, -3008>>, <<7357, 7359, 1, -3008>>, <<7680, 7828, 2, 1>>, <<7838, 7838, 1, -7615>>,
      <<7840, 7934, 2, 1>>, <<7944, 7951, 1, -8>>, <<7960, 7965, 1, -8>>, <<7976, 7983, 1, -8>>,
      <<7992, 7999, 1, -8>>, <<8008, 8013, 1, -8>>, <<8025, 8031, 2, -8>>, <<8040, 8047, 1, -8>>,
      <<8072, 8079, 1, -8>>, <<8088, 8095, 1, -8>>, <<8104, 8111, 1, -8>>, <<8120, 8121, 1, -8>>,
      <<8122, 8123, 1, -74>>, <<8124, 8124, 1, -9>>, <<8136, 8139, 1, -86>>, <<8140, 8140, 1, -9>>,
      <<8152, 8153, 1, -8>>, <<8154, 8155, 1, -100>>, <<8168, 8169, 1, -8>>, <<8170, 8171, 1, -112>>,
      <<8172, 8172, 1, -7>>, <<8184, 8185, 1, -128>>, <<8186, 8187, 1, -126>>, <<8188, 8188, 1, -9>>,
      <<8486, 8486, 1, -7517>>, <<8490, 8490, 1, -8383>>, <<8491, 8491, 1, -8262>>, <<8498, 8498, 1, 28>>,
      <<8544, 8559, 1, 16>>, <<8579, 8579, 1, 1>>, <<9398, 9423, 1, 26>>, <<11264, 11311, 1, 48>>,
      <<11360, 11360, 1, 1>>, <<11362, 11362, 1, -10743>>, <<11363, 11363, 1, -3814>>, <<11364, 11364, 1, -10727>>,
      <<11367, 11371, 2, 1>>, <<11373, 11373, 1, -10780>>, <<11374, 11374, 1, -10749>>, <<11375, 11375, 1, -10783>>,
      <<11376, 11376, 1, -10782>>, <<11378, 11378, 1, 1>>, <<11381, 11381, 1, 1>>, <<11390, 11391, 1, -10815>>,
      <<11392, 11490, 2, 1>>, <<11499, 11501, 2, 1>>, <<11506, 11506, 1, 1>>, <<42560, 42604, 2, 1>>,
      <<42624, 42650, 2, 1>>, <<42786, 42798, 2, 1>>, <<42802, 42862, 2, 1>>, <<42873, 42875, 2, 1>>,
      <<42877, 42877, 1, -35332>>, <<42878, 42886, 2, 1>>, <<42891, 42891, 1, 1>>, <<42893, 42893, 1, -42280>>,
      <<42896, 42898, 2, 1>>, <<42902, 42920, 2, 1>>, <<42922, 42922, 1, -42308>>, <<42923, 42923, 1, -42319>>,
      <<42924, 42924, 1, -42315>>, <<42925, 42925, 1, -42305>>, <<42926, 42926, 1, -42308>>, <<42928, 42928, 1, -42258>>,
      <<42929, 42929, 1, -42282>>, <<42930, 42930, 1, -42261>>, <<42931, 42931, 1, 928>>, <<42932, 42946, 2, 1>>,
      <<42948, 42948, 1, -48>>, <<42949, 42949, 1, -42307>>, <<42950, 42950, 1, -35384>>, <<42951, 42953, 2, 1>>,
      <<42955, 42955, 1, -42343>>, <<42956, 42970, 2, 1>>, <<42972, 42972, 1, -42561>>, <<42997, 42997, 1, 1>>,
      <<65313, 65338, 1, 32>>, <<66560, 66599, 1, 40>>, <<66736, 66771, 1, 40>>, <<66928, 66964, 2, 39>>,
      <<66929, 66937, 2, 39>>, <<66941, 66953, 2, 39>>, <<66957, 66961, 2, 39>>, <<66965, 66965, 1, 39>>,
      <<68736, 68786, 1, 64>>, <<68944, 68965, 1, 32>>, <<71840, 71871, 1, 32>>, <<93760, 93791, 1, 32>>,
      <<93856, 93880, 1, 27>>, <<125184, 125217, 1, 34>>
    }

\* Code points that are cased letters (and not case-ignorable), as
\* <<first, last>>: the context of the final-sigma rule.
CasedRanges ==
    {
      <<65, 90>>, <<97, 122>>, <<170, 170>>, <<181, 181>>, <<186, 186>>, <<192, 214>>,
      <<216, 246>>, <<248, 442>>, <<444, 447>>, <<452, 659>>, <<662, 687>>, <<880, 883>>,
      <<886, 887>>, <<891, 893>>, <<895, 895>>, <<902, 902>>, <<904, 906>>, <<908, 908>>,
      <<910, 929>>, <<931, 1013>>, <<1015, 1153>>, <<1162, 1327>>, <<1329, 1366>>, <<1376, 1416>>,
      <<4256, 4293>>, <<4295, 4295>>, <<4301, 4301>>, <<4304, 4346>>, <<4349, 4351>>, <<5024, 5109>>,
      <<5112, 5117>>, <<7296, 7306>>, <<7312, 7354>>, <<7357, 7359>>, <<7424, 7467>>, <<7531, 7543>>,
      <<7545, 7578>>, <<7680, 7957>>, <<7960, 7965>>, <<7968, 8005>>, <<8008, 8013>>, <<8016, 8023>>,
      <<8025, 8025>>, <<8027, 8027>>, <<8029, 8029>>, <<8031, 8061>>, <<8064, 8116>>, <<8118, 8124>>,
      <<8126, 8126>>, <<8130, 8132>>, <<8134, 8140>>, <<8144, 8147>>, <<8150, 8155>>, <<8160, 8172>>,
      <<8178, 8180>>, <<8182, 8188>>, <<8450, 8450>>, <<8455, 8455>>, <<8458, 8467>>, <<8469, 8469>>,
      <<8473, 8477>>, <<8484, 8484>>, <<8486, 8486>>, <<8488, 8488>>, <<8490, 8493>>, <<8495, 8500>>,
      <<8505, 8505>>, <<8508, 8511>>, <<8517, 8521>>, <<8526, 8526>>, <<8544, 8575>>, <<8579, 8580>>,
      <<9398, 9449>>, <<11264, 11387>>, <<11390, 11492>>, <<11499, 11502>>, <<11506, 11507>>, <<11520, 11557>>,
      <<11559, 11559>>, <<11565, 11565>>, <<42560, 42605>>, <<42624, 42651>>, <<42786, 42863>>, <<42865, 42887>>,
      <<42891, 42894>>, <<42896, 42972>>, <<42997, 42998>>, <<43002, 43002>>, <<43824, 43866>>, <<43872, 43880>>,
      <<43888, 43967>>, <<64256, 64262>>, <<64275, 64279>>, <<65313, 65338>>, <<65345, 65370>>, <<66560, 66639>>,
      <<66736, 66771>>, <<66776, 66811>>, <<66928, 66938>>, <<66940, 66954>>, <<66956, 66962>>, <<66964, 66965>>,
      <<66967, 66977>>, <<66979, 66993>>, <<66995, 67001>>, <<67003, 67004>>, <<68736, 68786>>, <<68800, 68850>>,
      <<68944, 68965>>, <<68976, 68997>>, <<71840, 71903>>, <<93760, 93823>>, <<93856, 93880>>, <<93883, 93907>>,
      <<119808, 119892>>, <<119894, 119964>>, <<119966, 119967>>, <<119970, 119970>>, <<119973, 119974>>, <<119977, 119980>>,
      <<119982, 119993>>, <<119995, 119995>>, <<119997, 120003>>, <<120005, 120069>>, <<120071, 120074>>, <<120077, 120084>>,
      <<120086, 120092>>, <<120094, 120121>>, <<120123, 120126>>, <<120128, 120132>>, <<120134, 120134>>, <<120138, 120144>>,
      <<120146, 120485>>, <<120488, 120512>>, <<120514, 120538>>, <<120540, 120570>>, <<120572, 120596>>, <<120598, 120628>>,
      <<120630, 120654>>, <<120656, 120686>>, <<120688, 120712>>, <<120714, 120744>>, <<120746, 120770>>, <<120772, 120779>>,
      <<122624, 122633>>, <<122635, 122654>>, <<122661, 122666>>, <<125184, 125251>>, <<127280, 127305>>, <<127312, 127337>>,
      <<127344, 127369>>
    }

\* Code points that are case-ignorable, as <<first, last>>.
CaseIgnorableRanges ==
    {
      <<39, 39>>, <<46, 46>>, <<58, 58>>, <<94, 94>>, <<96, 96>>, <<168, 168>>,
      <<173, 173>>, <<175, 175>>, <<180, 180>>, <<183, 184>>, <<688, 879>>, <<884, 885>>,
      <<890, 890>>, <<900, 901>>, <<903, 903>>, <<1155, 1161>>, <<1369, 1369>>, <<1375, 1375>>,
      <<1425, 1469>>, <<1471, 1471>>, <<1473, 1474>>, <<1476, 1477>>, <<1479, 1479>>, <<1524, 1524>>,
      <<1536, 1541>>, <<1552, 1562>>, <<1564, 1564>>, <<1600, 1600>>, <<1611, 1631>>, <<1648, 1648>>,
      <<1750, 1757>>, <<1759, 1768>>, <<1770, 1773>>, <<1807, 1807>>, <<1809, 1809>>, <<1840, 1866>>,
      <<1958, 1968>>, <<2027, 2037>>, <<2042, 2042>>, <<2045, 2045>>, <<2070, 2093>>, <<2137, 2139>>,
      <<2184, 2184>>, <<2192, 2193>>, <<2199, 2207>>, <<2249, 2306>>, <<2362, 2362>>, <<2364, 2364>>,
      <<2369, 2376>>, <<2381, 2381>>, <<2385, 2391>>, <<2402, 2403>>, <<2417, 2417>>, <<2433, 2433>>,
      <<2492, 2492>>, <<2497, 2500>>, <<2509, 2509>>, <<2530, 2531>>, <<2558, 2558>>, <<2561, 2562>>,
      <<2620, 2620>>, <<2625, 2626>>, <<2631, 2632>>, <<2635, 2637>>, <<2641, 2641>>, <<2672, 2673>>,
      <<2677, 2677>>, <<2689, 2690>>, <<2748, 2748>>, <<2753, 2757>>, <<2759, 2760>>, <<2765, 2765>>,
      <<2786, 2787>>, <<2810, 2815>>, <<2817, 2817>>, <<2876, 2876>>, <<2879, 2879>>, <<2881, 2884>>,
      <<2893, 2893>>, <<2901, 2902>>, <<2914, 2915>>, <<2946, 2946>>, <<3008, 3008>>, <<3021, 3021>>,
      <<3072, 3072>>, <<3076, 3076>>, <<3132, 3132>>, <<3134, 3136>>, <<3142, 3144>>, <<3146, 3149>>,
      <<3157, 3158>>, <<3170, 3171>>, <<3201, 3201>>, <<3260, 3260>>, <<3263, 3263>>, <<3270, 3270>>,
      <<3276, 3277>>, <<3298, 3299>>, <<3328, 3329>>, <<3387, 3388>>, <<3393, 3396>>, <<3405, 3405>>,
      <<3426, 3427>>, <<3457, 3457>>, <<3530, 3530>>, <<3538, 3540>>, <<3542, 3542>>, <<3633, 3633>>,
      <<3636, 3642>>, <<3654, 3662>>, <<3761, 3761>>, <<3764, 3772>>, <<3782, 3782>>, <<3784, 3790>>,
      <<3864, 3865>>, <<3893, 3893>>, <<3895, 3895>>, <<3897, 3897>>, <<3953, 3966>>, <<3968, 3972>>,
      <<3974, 3975>>, <<3981, 3991>>, <<3993, 4028>>, <<4038, 4038>>, <<4141, 4144>>, <<4146, 4151>>,
      <<4153, 4154>>, <<4157, 4158>>, <<4184, 4185>>, <<4190, 4192>>, <<4209, 4212>>, <<4226, 4226>>,
      <<4229, 4230>>, <<4237, 4237>>, <<4253, 4253>>, <<4348, 4348>>, <<4957, 4959>>, <<5906, 5908>>,
      <<5938, 5939>>, <<5970, 5971>>, <<6002, 6003>>, <<6068, 6069>>, <<6071, 6077>>, <<6086, 6086>>,
      <<6089, 6099>>, <<6103, 6103>>, <<6109, 6109>>, <<6155, 6159>>, <<6211, 6211>>, <<6277, 6278>>,
      <<6313, 6313>>, <<6432, 6434>>, <<6439, 6440>>, <<6450, 6450>>, <<6457, 6459>>, <<6679, 6680>>,
      <<6683, 6683>>, <<6742, 6742>>, <<6744, 6750>>, <<6752, 6752>>, <<6754, 6754>>, <<6757, 6764>>,
      <<6771, 6780>>, <<6783, 6783>>, <<6823, 6823>>, <<6832, 6877>>, <<6880, 6891>>, <<6912, 6915>>,
      <<6964, 6964>>, <<6966, 6970>>, <<6972, 6972>>, <<6978, 6978>>, <<7019, 7027>>, <<7040, 7041>>,
      <<7074, 7077>>, <<7080, 7081>>, <<7083, 7085>>, <<7142, 7142>>, <<7144, 7145>>, <<7149, 7149>>,
      <<7151, 7153>>, <<7212, 7219>>, <<7222, 7223>>, <<7288, 7293>>, <<7376, 7378>>, <<7380, 7392>>,
      <<7394, 7400>>, <<7405, 7405>>, <<7412, 7412>>, <<7416, 7417>>, <<7468, 7530>>, <<7544, 7544>>,
      <<7579, 7679>>, <<8125, 8125>>, <<8127, 8129>>, <<8141, 8143>>, <<8157, 8159>>, <<8173, 8175>>,
      <<8189, 8190>>, <<8203, 8207>>, <<8216, 8217>>, <<8228, 8228>>, <<8231, 8231>>, <<8234, 8238>>,
      <<8288, 8292>>, <<8294, 8303>>, <<8305, 8305>>, <<8319, 8319>>, <<8336, 8348>>, <<8400, 8432>>,
      <<11388, 11389>>, <<11503, 11505>>, <<11631, 11631>>, <<11647, 11647>>, <<11744, 11775>>, <<11823, 11823>>,
      <<12293, 12293>>, <<12330, 12333>>, <<12337, 12341>>, <<12347, 12347>>, <<12441, 12446>>, <<12540, 12542>>,
      <<40981, 40981>>, <<42232, 42237>>, <<42508, 42508>>, <<42607, 42610>>, <<42612, 42621>>, <<42623, 42623>>,
      <<42652, 42655>>, <<42736, 42737>>, <<42752, 42785>>, <<42864, 42864>>, <<42888, 42890>>, <<42993, 42996>>,
      <<43000, 43001>>, <<43010, 43010>>, <<43014, 43014>>, <<43019, 43019>>, <<43045, 43046>>, <<43052, 43052>>,
      <<43204, 43205>>, <<43232, 43249>>, <<43263, 43263>>, <<43302, 43309>>, <<43335, 43345>>, <<43392, 43394>>,
      <<43443, 43443>>, <<43446, 43449>>, <<43452, 43453>>, <<43471, 43471>>, <<43493, 43494>>, <<43561, 43566>>,
      <<43569, 43570>>, <<43573, 43574>>, <<43587, 43587>>, <<43596, 43596>>, <<43632, 43632>>, <<43644, 43644>>,
      <<43696, 43696>>, <<43698, 43700>>, <<43703, 43704>>, <<43710, 43711>>, <<43713, 43713>>, <<43741, 43741>>,
      <<43756, 43757>>, <<43763, 43764>>, <<43766, 43766>>, <<43867, 43871>>, <<43881, 43883>>, <<44005, 44005>>,
      <<44008, 44008>>, <<44013, 44013>>, <<64286, 64286>>, <<64434, 64450>>, <<65024, 65039>>, <<65043, 65043>>,
      <<65056, 65071>>, <<65106, 65106>>, <<65109, 65109>>, <<65279, 65279>>, <<65287, 65287>>, <<65294, 65294>>,
      <<65306, 65306>>, <<65342, 65342>>, <<65344, 65344>>, <<65392, 65392>>, <<65438, 65439>>, <<65507, 65507>>,
      <<65529, 65531>>, <<66045, 66045>>, <<66272, 66272>>, <<66422, 66426>>, <<67456, 67461>>, <<67463, 67504>>,
      <<67506, 67514>>, <<68097, 68099>>, <<68101, 68102>>, <<68108, 68111>>, <<68152, 68154>>, <<68159, 68159>>,
      <<68325, 68326>>, <<68900, 68903>>, <<68942, 68942>>, <<68969, 68973>>, <<68975, 68975>>, <<69291, 69292>>,
      <<69317, 69317>>, <<69370, 69375>>, <<69446, 69456>>, <<69506, 69509>>, <<69633, 69633>>, <<69688, 69702>>,
      <<69744, 69744>>, <<69747, 69748>>, <<69759, 69761>>, <<69811, 69814>>, <<69817, 69818>>, <<69821, 69821>>,
      <<69826, 69826>>, <<69837, 69837>>, <<69888, 69890>>, <<69927, 69931>>, <<69933, 69940>>, <<70003, 70003>>,
      <<70016, 70017>>, <<70070, 70078>>, <<70089, 70092>>, <<70095, 70095>>, <<70191, 70193>>, <<70196, 70196>>,
      <<70198, 70199>>, <<70206, 70206>>, <<70209, 70209>>, <<70367, 70367>>, <<70371, 70378>>, <<70400, 70401>>,
      <<70459, 70460>>, <<70464, 70464>>, <<70502, 70508>>, <<70512, 70516>>, <<70587, 70592>>, <<70606, 70606>>,
      <<70608, 70608>>, <<70610, 70610>>, <<70625, 70626>>, <<70712, 70719>>, <<70722, 70724>>, <<70726, 70726>>,
      <<70750, 70750>>, <<70835, 70840>>, <<70842, 70842>>, <<70847, 70848>>, <<70850, 70851>>, <<71090, 71093>>,
      <<71100, 71101>>, <<71103, 71104>>, <<71132, 71133>>, <<71219, 71226>>, <<71229, 71229>>, <<71231, 71232>>,
      <<71339, 71339>>, <<71341, 71341>>, <<71344, 71349>>, <<71351, 71351>>, <<71453, 71453>>, <<71455, 71455>>,
      <<71458, 71461>>, <<71463, 71467>>, <<71727, 71735>>, <<71737, 71738>>, <<71995, 71996>>, <<71998, 71998>>,
      <<72003, 72003>>, <<72148, 72151>>, <<72154, 72155>>, <<72160, 72160>>, <<72193, 72202>>, <<72243, 72248>>,
      <<72251, 72254>>, <<72263, 72263>>, <<72273, 72278>>, <<72281, 72283>>, <<72330, 72342>>, <<72344, 72345>>,
      <<72544, 72544>>, <<72546, 72548>>, <<72550, 72550>>, <<72752, 72758>>, <<72760, 72765>>, <<72767, 72767>>,
      <<72850, 72871>>, <<72874, 72880>>, <<72882, 72883>>, <<72885, 72886>>, <<73009, 73014>>, <<73018, 73018>>,
      <<73020, 73021>>, <<73023, 73029>>, <<73031, 73031>>, <<73104, 73105>>, <<73109, 73109>>, <<73111, 73111>>,
      <<73177, 73177>>, <<73459, 73460>>, <<73472, 73473>>, <<73526, 73530>>, <<73536, 73536>>, <<73538, 73538>>,
      <<73562, 73562>>, <<78896, 78912>>, <<78919, 78933>>, <<90398, 90409>>, <<90413, 90415>>, <<92912, 92916>>,
      <<92976, 92982>>, <<92992, 92995>>, <<93504, 93506>>, <<93547, 93548>>, <<94031, 94031>>, <<94095, 94111>>,
      <<94176, 94177>>, <<94179, 94180>>, <<94194, 94195>>, <<110576, 110579>>, <<110581, 110587>>, <<110589, 110590>>,
      <<113821, 113822>>, <<113824, 113827>>, <<118528, 118573>>, <<118576, 118598>>, <<119143, 119145>>, <<119155, 119170>>,
      <<119173, 119179>>, <<119210, 119213>>, <<119362, 119364>>, <<121344, 121398>>, <<121403, 121452>>, <<121461, 121461>>,
      <<121476, 121476>>, <<121499, 121503>>, <<121505, 121519>>, <<122880, 122886>>, <<122888, 122904>>, <<122907, 122913>>,
      <<122915, 122916>>, <<122918, 122922>>, <<122928, 122989>>, <<123023, 123023>>, <<123184, 123197>>, <<123566, 123566>>,
      <<123628, 123631>>, <<124139, 124143>>, <<124398, 124399>>, <<124643, 124643>>, <<124646, 124646>>, <<124654, 124655>>,
      <<124661, 124661>>, <<124671, 124671>>, <<125136, 125142>>, <<125252, 125259>>, <<127995, 127999>>, <<917505, 917505>>,
      <<917536, 917631>>, <<917760, 917999>>
    }

IsCased(c) == \E r \in CasedRanges : c >= r[1] /\ c <= r[2]

IsCaseIgnorable(c) == \E r \in CaseIgnorableRanges : c >= r[1] /\ c <= r[2]

\* String.prototype.toLowerCase on one code point, out of context
LowerChar(c) ==
    IF c < 192 THEN IF c >= 65 /\ c <= 90 THEN c + 32 ELSE c
    ELSE LET hit == {r \in LowerRanges : c >= r[1] /\ c <= r[2] /\ (c - r[1]) % r[3] = 0}
         IN IF hit = {} THEN c ELSE c + (CHOOSE r \in hit : TRUE)[4]

\* the capital sigma at position i of s is final: it follows a cased letter
\* (case-ignorable code points skipped) and no cased letter follows it
FinalSigma(s, i) ==
    LET before == {j \in 1..(i - 1) : ~IsCaseIgnorable(s[j])}
        after  == {j \in (i + 1)..Len(s) : ~IsCaseIgnorable(s[j])}
        Max(S) == CHOOSE x \in S : \A y \in S : y <= x
        Min(S) == CHOOSE x \in S : \A y \in S : x <= y
    IN /\ before # {} /\ IsCased(s[Max(before)])
       /\ after = {} \/ ~IsCased(s[Min(after)])

\* String.prototype.toLowerCase: the simple mapping of every code point,
\* except U+0130, which becomes "i" + U+0307, and a final capital sigma,
\* which becomes U+03C2
toLowerCase(s) ==
    LET lower(i) == IF s[i] = 304 THEN <<105, 775>>
                    ELSE IF s[i] = 931 /\ FinalSigma(s, i) THEN <<962>>
                    ELSE <<LowerChar(s[i])>>
        F[i \in 0..Len(s)] == IF i = 0 THEN <<>> ELSE F[i-1] \o lower(i)
    IN F[Len(s)]

\* the class \s of a regular expression: white space and line terminators
IsSpace(c) ==
    \/ c \in {9, 10, 11, 12, 13, 32, 160, 5760, 8232, 8233, 8239, 8287, 12288,
              65279}
    \/ c >= 8192 /\ c <= 8202

\* In the operators below an argument that is used more than once is bound
\* as a value first (x \in {v}), like a const of the source.
\* s.replace(/\s+/g, '-'): every maximal run of white space becomes one '-'
ReplaceSpaces(s) ==
    LET Replaced(t) ==
            LET keep(i) == IF IsSpace(t[i])
                           THEN IF i > 1 /\ IsSpace(t[i-1]) THEN <<>> ELSE <<45>>
                           ELSE <<t[i]>>
                F[i \in 0..Len(t)] == IF i = 0 THEN <<>> ELSE F[i-1] \o keep(i)
            IN F[Len(t)]
    IN CHOOSE r \in {Replaced(t) : t \in {s}} : TRUE

\* the segments of a path between its '/' separators
Segments(p) ==
    LET Cuts(q) == {0, Len(q) + 1} \cup {i \in 1..Len(q) : q[i] = 47}
        Split(q, cuts) ==
            LET cut(k) == CHOOSE c \in cuts : Cardinality({d \in cuts : d < c}) = k
            IN [k \in 1..(Cardinality(cuts) - 1) |->
                   SubSeq(q, cut(k - 1) + 1, cut(k) - 1)]
    IN CHOOSE r \in {Split(x[1], x[2]) : x \in {<<q, Cuts(q)>> : q \in {p}}} : TRUE

\* one segment of path.join's normalisation: empty and "." segments are
\* dropped; ".." removes the segment before it, and when there is none to
\* remove it stays in a relative path and is dropped in an absolute one
Resolve(kept, seg, isAbsolute) ==
    LET Resolved(k) ==
            IF seg = <<>> \/ seg = <<46>> THEN k
            ELSE IF seg = <<46, 46>>
                 THEN IF k # <<>> /\ k[Len(k)] # <<46, 46>>
                      THEN SubSeq(k, 1, Len(k) - 1)
                      ELSE IF isAbsolute THEN k ELSE Append(k, seg)
            ELSE Append(k, seg)
    IN CHOOSE r \in {Resolved(k) : k \in {kept}} : TRUE

\* path.normalize(path) (POSIX), for a path that is not empty: the segments
\* that the normalisation keeps, joined by '/', after the leading '/' of an
\* absolute path and before the trailing '/' if the path had one
normalize(path) ==
    LET Kept(q, segs) ==
            LET G[i \in 0..Len(segs)] ==
                    IF i = 0 THEN <<>> ELSE Resolve(G[i-1], segs[i], q[1] = 47)
            IN G[Len(segs)]
        Joined(q, kept) ==
            LET H[i \in 1..Len(kept)] ==
                    IF i = 1 THEN kept[1] ELSE H[i-1] \o <<47>> \o kept[i]
                isAbsolute == q[1] = 47
                trailingSeparator == q[Len(q)] = 47
            IN IF kept = <<>>
               THEN IF isAbsolute THEN <<47>>
                    ELSE IF trailingSeparator THEN <<46, 47>> ELSE <<46>>
               ELSE (IF isAbsolute THEN <<47>> ELSE <<>>) \o H[Len(kept)]
                       \o (IF trailingSeparator THEN <<47>> ELSE <<>>)
    IN CHOOSE r \in {Joined(y[1], y[2]) :
                        y \in {<<x[1], Kept(x[1], x[2])>> :
                                  x \in {<<q, Segments(q)>> : q \in {path}}}} : TRUE

\* path.join(dir, file) (POSIX): the arguments that are not empty, joined by
\* '/', and normalised; "." when both are empty
pathJoin(dir, file) ==
    LET Joined(d, f) ==
            IF d = <<>> /\ f = <<>> THEN <<46>>
            ELSE IF d = <<>> THEN normalize(f)
            ELSE IF f = <<>> THEN normalize(d)
            ELSE normalize(d \o <<47>> \o f)
    IN CHOOSE r \in {Joined(x[1], x[2]) : x \in {<<dir, file>>}} : TRUE

PngExt == <<46, 112, 110, 103>>                     \* ".png"
BeforeSubmit == <<45, 98, 101, 102, 111, 114, 101,
                  45, 115, 117, 98, 109, 105, 116>>  \* "-before-submit"
Screenshots == <<115, 99, 114, 101, 101, 110, 115, 104, 111, 116, 115>>
                                                    \* "screenshots"

\* process.cwd(): the directory the program is started in, "/cwd"
Cwd == <<47, 99, 119, 100>>

\* const screenshotsDir = path.join(process.cwd(), 'screenshots')
screenshotsDir == pathJoin(Cwd, Screenshots)

\* path.join(screenshotsDir, `${site.name.toLowerCase()}.png`)
screenshotPath(site) == pathJoin(screenshotsDir, toLowerCase(site.name) \o PngExt)

\* path.join(screenshotsDir, `${site.name.toLowerCase()}-before-submit.png`)
beforeSubmitPath(site) ==
    pathJoin(screenshotsDir, toLowerCase(site.name) \o BeforeSubmit \o PngExt)

(***************************************************************************)
(* Messages: <<text, embedded error>>.                                     *)
(***************************************************************************)
NoError == "none"
MsgSuccessful == <<"Login successful", NoError>>
MsgFailed     == <<"Login failed - error message detected", NoError>>
MsgAppears    == <<"Login appears successful", NoError>>
MsgUnclear    == <<"Login status unclear - could not find success indicator", NoError>>
MsgCheckError(e) == <<"Error checking login status: ", e>>
MsgTestError(e)  == <<"Error testing login: ", e>>
NoMessage == <<"", NoError>>

NoPath == <<>>
NoName == <<>>

\* what main gets from `await testLogin(site)`
Returned(r) == [returned |-> TRUE, site |-> r.site, success |-> r.success,
                message |-> r.message, screenshotPath |-> r.screenshotPath,
                error |-> NoError]
Threw(e) == [returned |-> FALSE, site |-> NoName, success |-> FALSE,
             message |-> NoMessage, screenshotPath |-> NoPath, error |-> e]
NoRet == Threw(NoError)

\* the entry of `results` for a settled call of testLogin
Outcome(r) == [returned |-> r.returned, site |-> r.site]

Site == sites[idx]

\* page.screenshot({path}) that resolves: the file at path is (re)written
Store(path) ==
    \E p \in {path} :
        /\ files' = files \cup {p}
        /\ overwritten' = IF p \in files THEN overwritten \cup {p} ELSE overwritten

(***************************************************************************)
(* Initial state.                                                          *)
(***************************************************************************)
\* process.env[name] of a variable that is not set
Undefined == "<undefined>"

\* the values a credential can have: not set, set to the empty string, set
EnvValues == {Undefined, "", "k"}

\* mutant: only a variable that is not set counts as missing (=== undefined)
Truthy_UndefinedOnly(v) == v # Undefined

\* !v of a string | undefined: undefined and '' are falsy
Truthy(v) == v # Undefined /\ v # ""

\* a time of ms milliseconds since the epoch, for ms below 2^31
Time(ms) == [day |-> ms \div 86400000, ms |-> ms % 86400000]

\* the clock d milliseconds after t
Advance(t, d) ==
    LET m == t.ms + d
    IN [day |-> t.day + m \div 86400000, ms |-> m % 86400000]

\* the clock when the bot-detection test starts: five seconds before the end
\* of 2026-10-29, so that the captures of one run lie on both sides of a
\* change of date
StartClocks == {[day |-> 20755, ms |-> 86395000]}

\* Math.random() is written in units of 2^-12: r below RandomScale stands
\* for r / 4096, a double whose product with a delay range is exact
RandomScale == 4096

\* 1 - 2^-52, the largest value the engine returns
RandomTop52 == 4096

\* 1 - 2^-53, the largest double below 1
RandomTop53 == 4097

\* the values Math.random() returns in a call of randomWait
RandomValues == {0, 1024, 2048, RandomTop52, RandomTop53}

\* the durations of a call of the session API or of the browser driver
Latencies == {0, 7, 1234}

\* the milliseconds by which a timer fires after its delay
Lateness == {0, 3}

ErrApiKey    == "BROWSERBASE_API_KEY is required"
ErrProjectId == "BROWSERBASE_PROJECT_ID is required"

Init ==
    /\ prog \in {"login", "bot"}
    /\ env \in [BROWSERBASE_API_KEY : EnvValues, BROWSERBASE_PROJECT_ID : EnvValues]
    /\ sites \in IF prog = "login" THEN SiteLists ELSE {testSites}
    /\ idx = 1
    /\ pc = "load"
    /\ started = {}
    /\ results = <<>>
    /\ created = [i \in 1..MaxSites |-> 0]
    /\ closed = [i \in 1..MaxSites |-> 0]
    /\ browser = "none"
    /\ files = {}
    /\ overwritten = {}
    /\ clock \in IF prog = "bot" THEN StartClocks ELSE {Time(0)}
    /\ timed = 0
    /\ exc = NoError
    /\ ret = NoRet
    /\ success = FALSE
    /\ message = NoMessage
    /\ pSucc = "none"
    /\ pFail = "none"
    /\ race = <<"none">>
    /\ firstSettled = <<"none">>
    /\ polled = FALSE
    /\ succPresent = FALSE
    /\ failPresent = FALSE
    /\ shots = <<>>
    /\ steps = <<>>
    /\ faults = 0
    /\ completed = FALSE


(***************************************************************************)
(* Variable groups.                                                        *)
(***************************************************************************)
sessionVars == <<created, closed, browser>>
timeVars    == <<clock, timed>>
fileVars    == <<files, overwritten, clock, timed>>
arbiterVars == <<success, message, pSucc, pFail, race, firstSettled, polled>>
pageVars    == <<succPresent, failPresent>>
inputVars   == <<prog, env, sites>>
envVars     == <<prog, env, sites, faults>>

\* a call of the session API or of the browser driver resolves
Resolves == UNCHANGED faults

\* a call of the session API or of the browser driver rejects
Rejects == faults < MaxFaults /\ faults' = faults + 1

(***************************************************************************)
(* Module load of both programs: the credentials are validated before      *)
(* main() is called; an error thrown here ends the process.                *)
(***************************************************************************)
LoadConfig ==
    /\ pc = "load"
    /\ IF ~Truthy(env.BROWSERBASE_API_KEY)
       THEN exc' = ErrApiKey /\ pc' = "crashed"
       ELSE IF ~Truthy(env.BROWSERBASE_PROJECT_ID)
       THEN exc' = ErrProjectId /\ pc' = "crashed"
       ELSE pc' = "start" /\ UNCHANGED exc
    /\ UNCHANGED <<envVars, idx, started, results, sessionVars, fileVars, ret,
                   arbiterVars, pageVars, shots, steps, completed>>

(***************************************************************************)
(* Login verification: main loop (part_000, main).                         *)
(***************************************************************************)
\* console.log('Starting login verification tests...')
LoginStart ==
    /\ prog = "login" /\ pc = "start"
    /\ pc' = "loop"
    /\ UNCHANGED <<envVars, idx, started, results, sessionVars, fileVars, exc,
                   ret, arbiterVars, pageVars, shots, steps, completed>>

\* mutant: the calls are not awaited one by one (sites.map(testLogin)):
\* every target is started at once
MainLoop_NotAwaited ==
    /\ prog = "login" /\ pc = "loop" /\ idx <= Len(sites)
    /\ started' = started \cup idx..Len(sites)
    /\ pc' = "create"
    /\ UNCHANGED <<envVars, idx, results, sessionVars, fileVars, completed, exc,
                   ret, arbiterVars, pageVars, shots, steps>>

\* for (const site of sites) { try { await testLogin(site) ...
\* the call runs testLogin up to its first await (bb.sessions.create)
MainLoop ==
    /\ prog = "login" /\ pc = "loop" /\ idx <= Len(sites)
    /\ started' = started \cup {idx}
    /\ pc' = "create"
    /\ exc' = NoError /\ ret' = NoRet
    /\ success' = FALSE /\ message' = NoMessage
    /\ pSucc' = "none" /\ pFail' = "none" /\ race' = <<"none">>
    /\ firstSettled' = <<"none">> /\ polled' = FALSE
    /\ succPresent' = FALSE /\ failPresent' = FALSE
    /\ shots' = <<>>
    /\ steps' = <<>>
    /\ browser' = "none"
    /\ UNCHANGED <<envVars, idx, results, created, closed, fileVars, completed>>

\* the loop is exhausted: the two completion messages, main returns
MainCompleted ==
    /\ prog = "login" /\ pc = "loop" /\ idx > Len(sites)
    /\ completed' = TRUE
    /\ pc' = "exit"
    /\ UNCHANGED <<envVars, idx, started, results, sessionVars, fileVars, exc,
                   ret, arbiterVars, pageVars, shots, steps>>

\* mutant: no try/catch around the call: the rejection ends main
MainCatch_Uncaught ==
    /\ prog = "login" /\ pc = "rejected"
    /\ pc' = "exit"
    /\ UNCHANGED <<envVars, idx, started, results, sessionVars, fileVars, exc,
                   ret, arbiterVars, pageVars, shots, steps, completed>>

\* } catch (error) { console.error(...) }  then the next iteration
MainCatch ==
    /\ prog = "login" /\ pc = "rejected"
    /\ exc' = NoError
    /\ idx' = idx + 1
    /\ pc' = "loop"
    /\ UNCHANGED <<envVars, started, results, sessionVars, fileVars, ret,
                   arbiterVars, pageVars, shots, steps, completed>>

\* await testLogin(site) resolved: the value is dropped, next iteration
MainAwaitReturns ==
    /\ prog = "login" /\ pc = "returned"
    /\ idx' = idx + 1
    /\ pc' = "loop"
    /\ UNCHANGED <<envVars, started, results, sessionVars, fileVars, exc, ret,
                   arbiterVars, pageVars, shots, steps, completed>>

(***************************************************************************)
(* testLogin: the statements before the try block (lines 57-83).           *)
(* A rejection here rejects testLogin's promise: no catch, no finally.     *)
(***************************************************************************)
SetupRejects(e) ==
    /\ Rejects
    /\ exc' = e
    /\ results' = Append(results, Outcome(Threw(e)))
    /\ pc' = "rejected"

\* const session = await bb.sessions.create({...})
CreateSession ==
    /\ prog = "login" /\ pc = "create"
    /\ \/ /\ Resolves
          /\ created' = [created EXCEPT ![idx] = @ + 1]
          /\ pc' = "connect"
          /\ UNCHANGED <<exc, results>>
       \/ /\ SetupRejects("sessions.create")
          /\ UNCHANGED created
    /\ UNCHANGED <<inputVars, idx, started, closed, browser, fileVars, ret, arbiterVars,
                   pageVars, shots, steps, completed>>

\* const browser = await puppeteer.connect({...})
Connect ==
    /\ prog = "login" /\ pc = "connect"
    /\ \/ /\ Resolves /\ browser' = "open" /\ pc' = "pages"
          /\ UNCHANGED <<exc, results>>
       \/ SetupRejects("puppeteer.connect") /\ UNCHANGED browser
    /\ UNCHANGED <<inputVars, idx, started, created, closed, fileVars, ret,
                   arbiterVars, pageVars, shots, steps, completed>>

\* const pages = await browser.pages(); pages[0] || ...
Pages ==
    /\ prog = "login" /\ pc = "pages"
    /\ \/ /\ Resolves
          /\ \E hasPage \in BOOLEAN :
                pc' = IF hasPage THEN "setViewport" ELSE "newPage"
          /\ UNCHANGED <<exc, results>>
       \/ SetupRejects("browser.pages")
    /\ UNCHANGED <<inputVars, idx, started, sessionVars, fileVars, ret,
                   arbiterVars, pageVars, shots, steps, completed>>

\* ... || await browser.newPage()
NewPage ==
    /\ prog = "login" /\ pc = "newPage"
    /\ \/ /\ Resolves /\ pc' = "setViewport" /\ UNCHANGED <<exc, results>>
       \/ SetupRejects("browser.newPage")
    /\ UNCHANGED <<inputVars, idx, started, sessionVars, fileVars, ret,
                   arbiterVars, pageVars, shots, steps, completed>>

\* await page.setViewport({...}); const screenshotPath = ...
SetViewport ==
    /\ prog = "login" /\ pc = "setViewport"
    /\ \/ /\ Resolves /\ pc' = "goto" /\ UNCHANGED <<exc, results>>
       \/ SetupRejects("page.setViewport")
    /\ UNCHANGED <<inputVars, idx, started, sessionVars, fileVars, ret,
                   arbiterVars, pageVars, shots, steps, completed>>

(***************************************************************************)
(* testLogin: the interaction steps inside the try block (lines 85-115).   *)
(***************************************************************************)
\* an awaited driver call inside the try block: resolves, or rejects into
\* the catch block of line 160
TryStep(at, next) ==
    /\ prog = "login" /\ pc = at
    /\ \/ /\ Resolves /\ pc' = next /\ UNCHANGED exc
          /\ steps' = Append(steps, <<at, TRUE>>)
       \/ /\ Rejects /\ exc' = at /\ pc' = "catch"
          /\ steps' = Append(steps, <<at, FALSE>>)
    /\ UNCHANGED <<inputVars, idx, started, results, sessionVars, fileVars, ret,
                   arbiterVars, pageVars, shots, completed>>

\* await page.goto(site.url, {...}); if (site.beforeLogin) ...
Goto == TryStep("goto", IF Site.beforeLogin THEN "beforeLogin" ELSE "waitUsername")

\* await site.beforeLogin(page)
BeforeLogin == TryStep("beforeLogin", "waitUsername")

\* await page.waitForSelector(site.usernameSelector)
WaitUsername == TryStep("waitUsername", "typeUsername")

\* await page.type(site.usernameSelector, ...)
TypeUsername == TryStep("typeUsername", "waitPassword")

\* await page.waitForSelector(site.passwordSelector)
WaitPassword == TryStep("waitPassword", "typePassword")

\* await page.type(site.passwordSelector, ...)
TypePassword == TryStep("typePassword", "shotBefore")

\* await page.screenshot({ path: ...-before-submit.png })
ShotBefore ==
    /\ prog = "login" /\ pc = "shotBefore"
    /\ \/ /\ Resolves
          /\ Store(beforeSubmitPath(Site))
          /\ shots' = Append(shots, <<"before", TRUE>>)
          /\ steps' = Append(steps, <<"shotBefore", TRUE>>)
          /\ pc' = "submit"
          /\ UNCHANGED exc
       \/ /\ Rejects
          /\ shots' = Append(shots, <<"before", FALSE>>)
          /\ steps' = Append(steps, <<"shotBefore", FALSE>>)
          /\ exc' = "shotBefore" /\ pc' = "catch"
          /\ UNCHANGED <<files, overwritten>>
    /\ UNCHANGED <<inputVars, idx, started, results, sessionVars, timeVars, ret,
                   arbiterVars, pageVars, completed>>

\* mutant: the navigation wait has no .catch(() => {}): its rejection rejects
\* the Promise.all
Submit_NavNotSwallowed ==
    /\ prog = "login" /\ pc = "submit"
    /\ \E navOk \in BOOLEAN, clickOk \in BOOLEAN :
          /\ steps' = steps \o <<<<"waitForNavigation", navOk>>,
                                  <<"click", clickOk>>>>
          /\ IF navOk /\ clickOk
             THEN Resolves /\ pc' = "raceStart" /\ UNCHANGED exc
             ELSE /\ Rejects /\ pc' = "catch"
                  /\ exc' = IF clickOk THEN "waitForNavigation" ELSE "click"
    /\ UNCHANGED <<inputVars, idx, started, results, sessionVars, fileVars, ret,
                   arbiterVars, pageVars, shots, completed>>

\* await Promise.all([page.waitForNavigation(...).catch(() => {}),
\*                    page.click(site.submitSelector)])
\* the navigation wait's rejection is replaced by a fulfilment; the click's
\* rejection rejects the Promise.all
Submit ==
    /\ prog = "login" /\ pc = "submit"
    /\ \E navOk \in BOOLEAN, clickOk \in BOOLEAN :
          /\ steps' = steps \o <<<<"waitForNavigation", navOk>>,
                                  <<"click", clickOk>>>>
          /\ IF clickOk
             THEN Resolves /\ pc' = "raceStart" /\ UNCHANGED exc
             ELSE Rejects /\ exc' = "click" /\ pc' = "catch"
    /\ UNCHANGED <<inputVars, idx, started, results, sessionVars, fileVars, ret,
                   arbiterVars, pageVars, shots, completed>>


(***************************************************************************)
(* testLogin: the outcome check (lines 117-147).                           *)
(***************************************************************************)
Pending == <<"pending">>

\* mutant: every settlement of an input settles the race again
RaceSettle_LastWins(r, outcome) == outcome

\* a promise settles once: the first settlement stays
RaceSettle(r, outcome) == IF r = Pending THEN outcome ELSE r

\* history: the first of the two waits to settle
NoteSettled(who, how) ==
    firstSettled' = IF firstSettled = <<"none">> THEN <<who, how>> ELSE firstSettled

\* let success = false; let message = '';
\* Promise.race([page.waitForSelector(success).then(...),
\*               failureIndicator ? page.waitForSelector(failure).then(...)
\*                                : Promise.resolve(null)])
\* Both waits need a round trip to the browser, so they are pending when the
\* race is built; Promise.resolve(null) is already fulfilled, and its
\* reaction is the first to run: the race fulfils with null.
RaceStart ==
    /\ prog = "login" /\ pc = "raceStart"
    /\ success' = FALSE /\ message' = NoMessage
    /\ pSucc' = "pending"
    /\ pFail' = IF Site.failureIndicator THEN "pending" ELSE "none"
    /\ race' = IF Site.failureIndicator
               THEN Pending
               ELSE RaceSettle(Pending, <<"fulfilled", "null">>)
    /\ steps' = Append(steps, <<"check", TRUE>>)
    /\ pc' = "raceAwait"
    /\ UNCHANGED <<envVars, idx, started, results, sessionVars, fileVars, exc,
                   ret, firstSettled, polled, pageVars, shots, completed>>

\* the page is open after the form was submitted: from the outcome check to
\* browser.close(), the catch block included when the check was reached
AfterSubmit ==
    \/ pc \in {"raceStart", "raceAwait", "exists", "shotFinal"}
    \/ pc \in {"catch", "finally"} /\ pSucc # "none"

\* the pcs at which the two waits of the race exist and the page is open:
\* nothing cancels a wait, so one that is pending can settle while the race,
\* the existence check, the final screenshot, the screenshot of the catch
\* block or browser.close() is awaited
WaitsLive == {"raceAwait", "exists", "shotFinal", "catch", "finally"}

\* the page shows the success indicator
SuccessIndicatorAppears ==
    /\ prog = "login" /\ AfterSubmit /\ ~succPresent
    /\ succPresent' = TRUE
    /\ UNCHANGED <<envVars, idx, pc, started, results, sessionVars, fileVars,
                   exc, ret, arbiterVars, failPresent, shots, steps, completed>>

\* the page shows the failure indicator
FailureIndicatorAppears ==
    /\ prog = "login" /\ AfterSubmit /\ ~failPresent
    /\ failPresent' = TRUE
    /\ UNCHANGED <<envVars, idx, pc, started, results, sessionVars, fileVars,
                   exc, ret, arbiterVars, succPresent, shots, steps, completed>>

\* page.waitForSelector(site.successIndicator, {timeout: 10000}) resolves;
\* .then(() => ({ success: true, message: 'Login successful' }))
SuccessWaitResolves ==
    /\ prog = "login" /\ pc \in WaitsLive /\ pSucc = "pending" /\ succPresent
    /\ pSucc' = "resolved"
    /\ race' = RaceSettle(race, <<"fulfilled", "success">>)
    /\ NoteSettled("success", "resolved")
    /\ UNCHANGED <<envVars, idx, pc, started, results, sessionVars, fileVars,
                   exc, ret, success, message, pFail, polled, pageVars, shots,
                   steps, completed>>

\* the reasons a wait rejects with
WaitErrors == {"TimeoutError", "ProtocolError"}

\* page.waitForSelector(site.successIndicator, {timeout: 10000}) rejects:
\* the 10000 ms pass without the selector, or the driver fails
SuccessWaitRejects ==
    /\ prog = "login" /\ pc \in WaitsLive /\ pSucc = "pending"
    /\ \E e \in WaitErrors :
          /\ IF e = "TimeoutError" THEN ~succPresent /\ Resolves ELSE Rejects
          /\ race' = RaceSettle(race, <<"rejected", e>>)
          /\ NoteSettled("success", e)
          /\ pSucc' = e
    /\ UNCHANGED <<inputVars, idx, pc, started, results, sessionVars, fileVars,
                   exc, ret, success, message, pFail, polled, pageVars, shots,
                   steps, completed>>

\* page.waitForSelector(site.failureIndicator, {timeout: 10000}) resolves;
\* .then(() => ({ success: false, message: 'Login failed - ...' }))
FailureWaitResolves ==
    /\ prog = "login" /\ pc \in WaitsLive /\ pFail = "pending" /\ failPresent
    /\ pFail' = "resolved"
    /\ race' = RaceSettle(race, <<"fulfilled", "failure">>)
    /\ NoteSettled("failure", "resolved")
    /\ UNCHANGED <<envVars, idx, pc, started, results, sessionVars, fileVars,
                   exc, ret, success, message, pSucc, polled, pageVars, shots,
                   steps, completed>>

\* mutant: the rejection of a wait that lost the race is not absorbed by the
\* race: it surfaces in the try block
FailureWaitRejects_Escapes ==
    /\ prog = "login" /\ pc \in WaitsLive /\ pFail = "pending"
    /\ \E e \in WaitErrors :
          /\ IF e = "TimeoutError" THEN ~failPresent /\ Resolves ELSE Rejects
          /\ race' = RaceSettle(race, <<"rejected", e>>)
          /\ NoteSettled("failure", e)
          /\ pFail' = e
          /\ exc' = IF race = Pending THEN exc ELSE e
          /\ pc' = IF race = Pending THEN pc ELSE "catch"
    /\ UNCHANGED <<inputVars, idx, started, results, sessionVars, fileVars,
                   ret, success, message, pSucc, polled, pageVars, shots,
                   steps, completed>>

\* page.waitForSelector(site.failureIndicator, {timeout: 10000}) rejects
FailureWaitRejects ==
    /\ prog = "login" /\ pc \in WaitsLive /\ pFail = "pending"
    /\ \E e \in WaitErrors :
          /\ IF e = "TimeoutError" THEN ~failPresent /\ Resolves ELSE Rejects
          /\ race' = RaceSettle(race, <<"rejected", e>>)
          /\ NoteSettled("failure", e)
          /\ pFail' = e
    /\ UNCHANGED <<inputVars, idx, pc, started, results, sessionVars, fileVars,
                   exc, ret, success, message, pSucc, polled, pageVars, shots,
                   steps, completed>>

\* const result = await Promise.race([...]) settles:
\*   if (result) { success = result.success; message = result.message }
\*   else        -> the existence check of line 138
\*   rejection   -> catch (error) of line 144
RaceAwait ==
    /\ prog = "login" /\ pc = "raceAwait" /\ race # Pending
    /\ CASE race = <<"fulfilled", "success">> ->
              success' = TRUE /\ message' = MsgSuccessful /\ pc' = "shotFinal"
         [] race = <<"fulfilled", "failure">> ->
              success' = FALSE /\ message' = MsgFailed /\ pc' = "shotFinal"
         [] race = <<"fulfilled", "null">> ->
              pc' = "exists" /\ UNCHANGED <<success, message>>
         [] OTHER ->
              success' = FALSE /\ message' = MsgCheckError(race[2]) /\ pc' = "shotFinal"
    /\ UNCHANGED <<envVars, idx, started, results, sessionVars, fileVars, exc,
                   ret, pSucc, pFail, race, firstSettled, polled, pageVars,
                   shots, steps, completed>>

\* mutant: the null that page.$ gives for an absent element counts as found
\* (success = successExists !== undefined)
Exists_NullIsFound ==
    /\ prog = "login" /\ pc = "exists"
    /\ polled' = TRUE
    /\ \/ /\ Resolves
          /\ success' = TRUE
          /\ message' = MsgAppears
       \/ /\ Rejects
          /\ success' = FALSE
          /\ message' = MsgCheckError("page.$")
    /\ pc' = "shotFinal"
    /\ UNCHANGED <<inputVars, idx, started, results, sessionVars, fileVars, exc,
                   ret, pSucc, pFail, race, firstSettled, pageVars, shots,
                   steps, completed>>

\* const successExists = await page.$(site.successIndicator);
\* success = !!successExists; message = success ? ... : ...
\* a rejection goes to the catch (error) of line 144
Exists ==
    /\ prog = "login" /\ pc = "exists"
    /\ polled' = TRUE
    /\ \/ /\ Resolves
          /\ success' = succPresent
          /\ message' = IF succPresent THEN MsgAppears ELSE MsgUnclear
       \/ /\ Rejects
          /\ success' = FALSE
          /\ message' = MsgCheckError("page.$")
    /\ pc' = "shotFinal"
    /\ UNCHANGED <<inputVars, idx, started, results, sessionVars, fileVars, exc,
                   ret, pSucc, pFail, race, firstSettled, pageVars, shots,
                   steps, completed>>

(***************************************************************************)
(* testLogin: final screenshot, catch block, finally block (149-181).      *)
(***************************************************************************)
\* mutant: a rejection of the final screenshot is swallowed and the verdict
\* is returned
ShotFinal_SwallowsFailure ==
    /\ prog = "login" /\ pc = "shotFinal"
    /\ \/ /\ Resolves
          /\ Store(screenshotPath(Site))
          /\ shots' = Append(shots, <<"final", TRUE>>)
          /\ steps' = Append(steps, <<"shotFinal", TRUE>>)
       \/ /\ Rejects
          /\ shots' = Append(shots, <<"final", FALSE>>)
          /\ steps' = Append(steps, <<"shotFinal", FALSE>>)
          /\ UNCHANGED <<files, overwritten>>
    /\ ret' = Returned([site |-> Site.name, success |-> success,
                        message |-> message,
                        screenshotPath |-> screenshotPath(Site)])
    /\ pc' = "finally"
    /\ UNCHANGED <<inputVars, idx, started, results, sessionVars, timeVars, exc,
                   arbiterVars, pageVars, completed>>

\* await page.screenshot({ path: screenshotPath }); return {...}
\* a rejection goes to the catch block of line 160
ShotFinal ==
    /\ prog = "login" /\ pc = "shotFinal"
    /\ \/ /\ Resolves
          /\ \E path \in {screenshotPath(Site)} :
                /\ Store(path)
                /\ ret' = Returned([site |-> Site.name, success |-> success,
                                    message |-> message,
                                    screenshotPath |-> path])
          /\ shots' = Append(shots, <<"final", TRUE>>)
          /\ steps' = Append(steps, <<"shotFinal", TRUE>>)
          /\ pc' = "finally"
          /\ UNCHANGED exc
       \/ /\ Rejects
          /\ shots' = Append(shots, <<"final", FALSE>>)
          /\ steps' = Append(steps, <<"shotFinal", FALSE>>)
          /\ exc' = "shotFinal" /\ pc' = "catch"
          /\ UNCHANGED <<files, overwritten, ret>>
    /\ UNCHANGED <<inputVars, idx, started, results, sessionVars, timeVars,
                   arbiterVars, pageVars, completed>>

\* mutant: the catch block returns the error result without a screenshot
Catch_NoScreenshot ==
    /\ prog = "login" /\ pc = "catch"
    /\ ret' = Returned([site |-> Site.name, success |-> FALSE,
                        message |-> MsgTestError(exc),
                        screenshotPath |-> screenshotPath(Site)])
    /\ exc' = NoError
    /\ pc' = "finally"
    /\ UNCHANGED <<envVars, idx, started, results, sessionVars, fileVars,
                   arbiterVars, pageVars, shots, steps, completed>>

\* catch (error) { errorMessage = `Error testing login: ${error}`;
\*   try { await page.screenshot({ path: screenshotPath }) } catch (err) {...}
\*   return { site, success: false, message: errorMessage, screenshotPath } }
Catch ==
    /\ prog = "login" /\ pc = "catch"
    /\ \E path \in {screenshotPath(Site)} :
          /\ \/ /\ Resolves
                /\ Store(path)
                /\ shots' = Append(shots, <<"error", TRUE>>)
                /\ steps' = Append(steps, <<"shotError", TRUE>>)
             \/ /\ Rejects
                /\ shots' = Append(shots, <<"error", FALSE>>)
                /\ steps' = Append(steps, <<"shotError", FALSE>>)
                /\ UNCHANGED <<files, overwritten>>
          /\ ret' = Returned([site |-> Site.name, success |-> FALSE,
                              message |-> MsgTestError(exc),
                              screenshotPath |-> path])
    /\ exc' = NoError
    /\ pc' = "finally"
    /\ UNCHANGED <<inputVars, idx, started, results, sessionVars, timeVars,
                   arbiterVars, pageVars, completed>>

\* a wait that is still pending when the browser goes away is rejected
Abandon(p) == IF p = "pending" THEN "TargetCloseError" ELSE p

\* finally { await browser.close(); console.log('Browser closed') }
\* when close resolves the pending return completes; when it rejects, the
\* rejection replaces the return value: testLogin throws and returns nothing
Finally ==
    /\ prog = "login" /\ pc = "finally"
    /\ closed' = [closed EXCEPT ![idx] = @ + 1]
    /\ browser' = "closed"
    /\ pSucc' = Abandon(pSucc) /\ pFail' = Abandon(pFail)
    /\ \/ /\ Resolves
          /\ results' = Append(results, Outcome(ret))
          /\ steps' = Append(steps, <<"close", TRUE>>)
          /\ pc' = "returned"
          /\ UNCHANGED <<exc, ret>>
       \/ /\ Rejects
          /\ ret' = Threw("browser.close")
          /\ results' = Append(results, Outcome(ret'))
          /\ steps' = Append(steps, <<"close", FALSE>>)
          /\ exc' = "browser.close"
          /\ pc' = "rejected"
    /\ UNCHANGED <<inputVars, idx, started, created, fileVars, success,
                   message, race, firstSettled, polled, pageVars, shots,
                   completed>>

LoginNext ==
    \/ LoginStart \/ MainLoop \/ MainCompleted \/ MainCatch \/ MainAwaitReturns
    \/ CreateSession \/ Connect \/ Pages \/ NewPage \/ SetViewport
    \/ Goto \/ BeforeLogin \/ WaitUsername \/ TypeUsername \/ WaitPassword
    \/ TypePassword \/ ShotBefore \/ Submit
    \/ RaceStart \/ SuccessIndicatorAppears \/ FailureIndicatorAppears
    \/ SuccessWaitResolves \/ SuccessWaitRejects
    \/ FailureWaitResolves \/ FailureWaitRejects
    \/ RaceAwait \/ Exists \/ ShotFinal \/ Catch \/ Finally

(***************************************************************************)
(* utils: takeScreenshot and randomWait (index.ts lines 309-335).          *)
(***************************************************************************)
Digit(d) == 48 + d
TwoDigits(n) == <<Digit((n \div 10) % 10), Digit(n % 10)>>
ThreeDigits(n) == <<Digit((n \div 100) % 10), Digit((n \div 10) % 10), Digit(n % 10)>>

FourDigits(n) == <<Digit((n \div 1000) % 10)>> \o ThreeDigits(n)

\* the date <<year, month, day of month>> of the day-th day after
\* 1970-01-01 in the proleptic Gregorian calendar (UTC), for years up to 9999
DateOf(day) ==
    LET z   == day + 719468
        era == z \div 146097
        doe == z - era * 146097
        yoe == (doe - doe \div 1460 + doe \div 36524 - doe \div 146096) \div 365
        doy == doe - (365 * yoe + yoe \div 4 - yoe \div 100)
        mp  == (5 * doy + 2) \div 153
        d   == doy - (153 * mp + 2) \div 5 + 1
        m   == IF mp < 10 THEN mp + 3 ELSE mp - 9
        y   == yoe + era * 400 + (IF m <= 2 THEN 1 ELSE 0)
    IN <<y, m, d>>

\* new Date(t).toISOString(): YYYY-MM-DDTHH:MM:SS.mmmZ
toISOString(t) ==
    LET date == DateOf(t.day)
    IN FourDigits(date[1]) \o <<45>> \o TwoDigits(date[2]) \o <<45>>
          \o TwoDigits(date[3]) \o <<84>>
          \o TwoDigits(t.ms \div 3600000) \o <<58>>
          \o TwoDigits((t.ms \div 60000) % 60) \o <<58>>
          \o TwoDigits((t.ms \div 1000) % 60) \o <<46>>
          \o ThreeDigits(t.ms % 1000) \o <<90>>

\* str.replace(/[:.]/g, '-')
ReplaceColonDot(str) == [i \in 1..Len(str) |-> IF str[i] \in {58, 46} THEN 45 ELSE str[i]]

\* const filename = `${name}-${timestamp}.png`; path.join(dir, filename)
\* with dir = 'screenshots', the default every caller uses
filePath(name, t) ==
    pathJoin(Screenshots, name \o <<45>> \o ReplaceColonDot(toISOString(t)) \o PngExt)

\* an await takes d milliseconds; least says that d is the least time it can
\* take
Passes(d, least) ==
    /\ least \/ timed < MaxTimed
    /\ timed' = IF least THEN timed ELSE timed + 1
    /\ clock' = Advance(clock, d)

\* time passes while a call of the session API or of the browser driver is
\* awaited: each call takes its own time
Elapses == \E latency \in Latencies : Passes(latency, latency = 0)

\* takeScreenshot(page, name): reads the clock for the file name, then
\* page.screenshot writes the file (ok) or rejects (~ok); the rejection is
\* not caught here
takeScreenshot(name, ok) ==
    /\ Elapses
    /\ IF ok
       THEN Resolves /\ Store(filePath(name, clock))
       ELSE Rejects /\ UNCHANGED <<files, overwritten>>

\* the exponent of the doubles just below the integer n >= 1:
\* 2^e < n <= 2^(e+1)
ExponentBelow(n) == (CHOOSE e \in 0..30 : n <= 2^e /\ (e = 0 \/ n > 2^(e-1))) - 1

\* Math.floor(Math.random() * (max - min) + min) in double arithmetic, for
\* 0 <= min <= max.  For Math.random() = r / 4096 the product and the sum are
\* exact.  For 1 - 2^-52 and 1 - 2^-53 the product is rounded to k units in
\* the last place below max - min (ties to even), and the sum is rounded up
\* to max when those k units are at most half a unit in the last place of
\* the doubles below max.
waitTime(min, max, r) ==
    LET range == max - min
        p  == ExponentBelow(range)
        p2 == ExponentBelow(max)
        k  == IF r = RandomTop52 /\ 4 * range >= 3 * 2^(p + 1) THEN 2 ELSE 1
    IN IF r < RandomScale THEN (r * range) \div RandomScale + min
       ELSE IF range = 0 THEN min
       ELSE IF k * 2^(p + 2) <= 2^(p2 + 1) THEN max
       ELSE max - 1

\* the values waitTime can take: every integer from min to max
WaitTimes(min, max) == min..max

\* randomWait(min, max): one call of Math.random(), then setTimeout for
\* waitTime ms; the timer fires after the delay, on time or late
randomWait(min, max) ==
    \E random \in RandomValues, late \in Lateness :
        Passes(waitTime(min, max, random) + late, random = 0 /\ late = 0)

\* `${site.name.toLowerCase().replace(/\s+/g, '-')}`
siteShotName(site) == ReplaceSpaces(toLowerCase(site.name))

GoogleQuery      == <<103, 111, 111, 103, 108, 101, 45, 115, 101, 97, 114, 99,
                      104, 45, 113, 117, 101, 114, 121>>
GoogleResults    == <<103, 111, 111, 103, 108, 101, 45, 115, 101, 97, 114, 99,
                      104, 45, 114, 101, 115, 117, 108, 116, 115>>
GoogleResultPage == <<103, 111, 111, 103, 108, 101, 45, 115, 101, 97, 114, 99,
                      104, 45, 114, 101, 115, 117, 108, 116, 45, 112, 97, 103, 101>>
GoogleError      == <<103, 111, 111, 103, 108, 101, 45, 115, 101, 97, 114, 99,
                      104, 45, 101, 114, 114, 111, 114>>

(***************************************************************************)
(* Bot detection: main of index.ts (lines 4-81).                           *)
(***************************************************************************)
botRest == <<results, ret, arbiterVars, pageVars, shots, steps>>

\* an awaited call in main's try block: resolves, or rejects into the
\* catch block of line 78
BotStep(at, next) ==
    /\ prog = "bot" /\ pc = at
    /\ \/ /\ Resolves /\ pc' = next /\ UNCHANGED exc
       \/ /\ Rejects /\ exc' = at /\ pc' = "b:catch"
    /\ Elapses
    /\ UNCHANGED <<inputVars, idx, started, sessionVars, files, overwritten,
                   completed,                    botRest>>

\* createBrowser: const session = await bb.sessions.create({...})
BotCreateSession ==
    /\ prog = "bot" /\ pc = "start"
    /\ \/ /\ Resolves
          /\ created' = [created EXCEPT ![1] = @ + 1]
          /\ pc' = "b:connect" /\ UNCHANGED exc
       \/ /\ Rejects /\ exc' = "sessions.create" /\ pc' = "b:catch"
          /\ UNCHANGED created
    /\ Elapses
    /\ UNCHANGED <<inputVars, idx, started, closed, browser, files, overwritten,
                   completed,                    botRest>>

\* createBrowser: const browser = await puppeteer.connect({...}); return browser
BotConnect ==
    /\ prog = "bot" /\ pc = "b:connect"
    /\ \/ /\ Resolves /\ browser' = "open" /\ pc' = "b:pages" /\ UNCHANGED exc
       \/ /\ Rejects /\ exc' = "puppeteer.connect" /\ pc' = "b:catch"
          /\ UNCHANGED browser
    /\ Elapses
    /\ UNCHANGED <<inputVars, idx, started, created, closed, files, overwritten,
                   completed,                    botRest>>

\* const pages = await browser.pages(); pages[0] || ...
BotPages ==
    /\ prog = "bot" /\ pc = "b:pages"
    /\ \/ /\ Resolves
          /\ \E hasPage \in BOOLEAN :
                pc' = IF hasPage THEN "b:setViewport" ELSE "b:newPage"
          /\ UNCHANGED exc
       \/ /\ Rejects /\ exc' = "b:pages" /\ pc' = "b:catch"
    /\ Elapses
    /\ UNCHANGED <<inputVars, idx, started, sessionVars, files, overwritten,
                   completed,                    botRest>>

\* ... || await browser.newPage()
BotNewPage == BotStep("b:newPage", "b:setViewport")

\* await page.setViewport({...})
BotSetViewport == BotStep("b:setViewport", "b:loop")

\* for (const site of testSites) {  ... the loop is entered for the next site
BotLoop ==
    /\ prog = "bot" /\ pc = "b:loop" /\ idx <= Len(sites)
    /\ started' = started \cup {idx}
    /\ pc' = "b:goto"
    /\ UNCHANGED <<envVars, idx, sessionVars, fileVars, exc, completed, botRest>>

\* await page.goto(site.url, {...})
BotGoto == BotStep("b:goto", "b:wait")

\* await randomWait(2000, 4000)
BotWait ==
    /\ prog = "bot" /\ pc = "b:wait"
    /\ randomWait(2000, 4000)
    /\ pc' = "b:shot"
    /\ UNCHANGED <<envVars, idx, started, sessionVars, files, overwritten, exc,
                   completed, botRest>>

\* await takeScreenshot(page, `${site.name.toLowerCase().replace(...)}`)
BotShot ==
    /\ prog = "bot" /\ pc = "b:shot"
    /\ \/ /\ takeScreenshot(siteShotName(Site), TRUE)
          /\ pc' = "b:title" /\ UNCHANGED exc
       \/ /\ takeScreenshot(siteShotName(Site), FALSE)
          /\ exc' = "b:shot" /\ pc' = "b:catch"
    /\ UNCHANGED <<inputVars, idx, started, sessionVars, completed, botRest>>

\* const title = await page.title(); ... logs
BotTitle == BotStep("b:title", "b:between")

\* if (testSites.indexOf(site) < testSites.length - 1) await randomWait(3000, 6000)
\* then the next iteration
BotBetween ==
    /\ prog = "bot" /\ pc = "b:between"
    /\ IF idx < Len(sites) THEN randomWait(3000, 6000) ELSE UNCHANGED timeVars
    /\ idx' = idx + 1
    /\ pc' = "b:loop"
    /\ UNCHANGED <<envVars, started, sessionVars, files, overwritten, exc,
                   completed, botRest>>

\* the loop is exhausted: await testGoogleSearch(page)
BotCallGoogle ==
    /\ prog = "bot" /\ pc = "b:loop" /\ idx > Len(sites)
    /\ pc' = "g:goto"
    /\ UNCHANGED <<envVars, idx, started, sessionVars, fileVars, exc, completed,
                   botRest>>

\* await browser.close(); the two completion messages
BotClose ==
    /\ prog = "bot" /\ pc = "b:close"
    /\ closed' = [closed EXCEPT ![1] = @ + 1]
    /\ browser' = "closed"
    /\ \/ /\ Resolves /\ completed' = TRUE /\ pc' = "exit" /\ UNCHANGED exc
       \/ /\ Rejects /\ exc' = "browser.close" /\ pc' = "b:catch"
          /\ UNCHANGED completed
    /\ Elapses
    /\ UNCHANGED <<inputVars, idx, started, created, files, overwritten, botRest>>

\* } catch (error) { console.error('An error occurred:', error) }
BotCatch ==
    /\ prog = "bot" /\ pc = "b:catch"
    /\ pc' = "exit"
    /\ UNCHANGED <<envVars, idx, started, sessionVars, fileVars, exc, completed,
                   botRest>>

(***************************************************************************)
(* testGoogleSearch (index.ts lines 87-209).                               *)
(***************************************************************************)
\* an awaited call in testGoogleSearch's try block: resolves, or rejects
\* into the catch block of line 205
GStep(at, next) ==
    /\ prog = "bot" /\ pc = at
    /\ \/ /\ Resolves /\ pc' = next /\ UNCHANGED exc
       \/ /\ Rejects /\ exc' = at /\ pc' = "g:catch"
    /\ Elapses
    /\ UNCHANGED <<inputVars, idx, started, sessionVars, files, overwritten,
                   completed,                    botRest>>

\* a call of page.$ in the try block: an element, null, or a rejection
GLookup(at, found, missing) ==
    /\ prog = "bot" /\ pc = at
    /\ \/ /\ Resolves /\ pc' \in {found, missing} /\ UNCHANGED exc
       \/ /\ Rejects /\ exc' = at /\ pc' = "g:catch"
    /\ Elapses
    /\ UNCHANGED <<inputVars, idx, started, sessionVars, files, overwritten,
                   completed,                    botRest>>

\* a randomWait followed by a takeScreenshot in the try block
GWaitShot(at, min, max, next) ==
    /\ prog = "bot" /\ pc = at
    /\ randomWait(min, max)
    /\ pc' = next
    /\ UNCHANGED <<envVars, idx, started, sessionVars, files, overwritten, exc,
                   completed, botRest>>

\* await takeScreenshot(page, name) in the try block
GShot(at, name, next) ==
    /\ prog = "bot" /\ pc = at
    /\ \/ /\ takeScreenshot(name, TRUE)
          /\ pc' = next /\ UNCHANGED exc
       \/ /\ takeScreenshot(name, FALSE)
          /\ exc' = at /\ pc' = "g:catch"
    /\ UNCHANGED <<inputVars, idx, started, sessionVars, completed, botRest>>

\* await page.goto('https://www.google.com', {...})
GGoto == GStep("g:goto", "g:findTextarea")

\* if (await page.$('textarea[name="q"]'))
GFindTextarea == GLookup("g:findTextarea", "g:clear", "g:findInput")

\* else if (await page.$('input[name="q"]'))
\* else throw new Error('Could not find Google search input')
GFindInput == GLookup("g:findInput", "g:clear", "g:noInput")

\* throw new Error('Could not find Google search input')
GNoInput ==
    /\ prog = "bot" /\ pc = "g:noInput"
    /\ exc' = "Could not find Google search input"
    /\ pc' = "g:catch"
    /\ UNCHANGED <<envVars, idx, started, sessionVars, fileVars, completed,
                   botRest>>

\* await page.evaluate(... value = '' ..., searchInput)
GClear == GStep("g:clear", "g:type")

\* await page.type(searchInput, searchQuery, { delay: 100 })
GType == GStep("g:type", "g:waitTyped")

\* await randomWait(800, 1500)
GWaitTyped == GWaitShot("g:waitTyped", 800, 1500, "g:shotQuery")

\* await takeScreenshot(page, 'google-search-query')
GShotQuery == GShot("g:shotQuery", GoogleQuery, "g:press")

\* await page.keyboard.press('Enter')
GPress == GStep("g:press", "g:waitNav")

\* await page.waitForNavigation({ timeout: 10000 }).catch(() => {...})
\* the rejection is replaced by a fulfilment
GWaitNav ==
    /\ prog = "bot" /\ pc = "g:waitNav"
    /\ \/ Resolves
       \/ Rejects
    /\ pc' = "g:waitReady"
    /\ Elapses
    /\ UNCHANGED <<inputVars, idx, started, sessionVars, files, overwritten, exc,
                   completed, botRest>>

\* await page.waitForFunction(() => document.readyState === 'complete', ...)
GWaitReady == GStep("g:waitReady", "g:waitResults")

\* await randomWait(2000, 3000)
GWaitResults == GWaitShot("g:waitResults", 2000, 3000, "g:shotResults")

\* await takeScreenshot(page, 'google-search-results')
GShotResults == GShot("g:shotResults", GoogleResults, "g:extract")

\* const searchResults = await page.evaluate(...); searchResults.forEach(...)
GExtract == GStep("g:extract", "g:findLink")

\* const resultLink = await page.$('#search a'); if (resultLink) ... else log
GFindLink == GLookup("g:findLink", "g:click", "g:done")

\* await Promise.all([page.waitForNavigation({ timeout: 30000 }), resultLink.click()])
GClick == GStep("g:click", "g:waitLanded")

\* await randomWait(3000, 5000)
GWaitLanded == GWaitShot("g:waitLanded", 3000, 5000, "g:title")

\* const pageTitle = await page.title()
GTitle == GStep("g:title", "g:shotPage")

\* await takeScreenshot(page, 'google-search-result-page')
GShotPage == GShot("g:shotPage", GoogleResultPage, "g:scroll1")

\* await page.evaluate(() => window.scrollBy(0, 500))
GScroll1 == GStep("g:scroll1", "g:waitScroll1")

\* await randomWait(1000, 2000)
GWaitScroll1 == GWaitShot("g:waitScroll1", 1000, 2000, "g:scroll2")

\* await page.evaluate(() => window.scrollBy(0, 500))
GScroll2 == GStep("g:scroll2", "g:waitScroll2")

\* await randomWait(3000, 5000)
GWaitScroll2 == GWaitShot("g:waitScroll2", 3000, 5000, "g:goBack")

\* await page.goBack()
GGoBack == GStep("g:goBack", "g:waitBack")

\* await randomWait(2000, 3000)
GWaitBack == GWaitShot("g:waitBack", 2000, 3000, "g:done")

\* console.log('Google search test completed'); testGoogleSearch returns
GDone ==
    /\ prog = "bot" /\ pc = "g:done"
    /\ pc' = "b:close"
    /\ UNCHANGED <<envVars, idx, started, sessionVars, fileVars, exc, completed,
                   botRest>>

\* catch (error) { console.error(...); await takeScreenshot(page, 'google-search-error') }
\* the rejection of takeScreenshot leaves testGoogleSearch and reaches the
\* catch block of main
GCatch ==
    /\ prog = "bot" /\ pc = "g:catch"
    /\ \/ /\ takeScreenshot(GoogleError, TRUE)
          /\ exc' = NoError /\ pc' = "b:close"
       \/ /\ takeScreenshot(GoogleError, FALSE)
          /\ exc' = "g:catch" /\ pc' = "b:catch"
    /\ UNCHANGED <<inputVars, idx, started, sessionVars, completed, botRest>>

BotNext ==
    \/ BotCreateSession \/ BotConnect \/ BotPages \/ BotNewPage \/ BotSetViewport
    \/ BotLoop \/ BotGoto \/ BotWait \/ BotShot \/ BotTitle \/ BotBetween
    \/ BotCallGoogle \/ BotClose \/ BotCatch

GoogleNext ==
    \/ GGoto \/ GFindTextarea \/ GFindInput \/ GNoInput \/ GClear \/ GType
    \/ GWaitTyped \/ GShotQuery \/ GPress \/ GWaitNav \/ GWaitReady
    \/ GWaitResults \/ GShotResults \/ GExtract \/ GFindLink \/ GClick
    \/ GWaitLanded \/ GTitle \/ GShotPage \/ GScroll1 \/ GWaitScroll1
    \/ GScroll2 \/ GWaitScroll2 \/ GGoBack \/ GWaitBack \/ GDone \/ GCatch

Next == LoadConfig \/ LoginNext \/ BotNext \/ GoogleNext

Spec == Init /\ [][Next]_vars

\* the login verifier alone
LoginInit == Init /\ prog = "login"

LoginProgram == LoadConfig \/ LoginNext

SpecLogin == LoginInit /\ [][LoginProgram]_vars

\* the bot-detection test alone
BotInit == Init /\ prog = "bot"

BotProgram == LoadConfig \/ BotNext \/ GoogleNext

SpecBot == BotInit /\ [][BotProgram]_vars

(***************************************************************************)
(* Properties.                                                             *)
(***************************************************************************)
\* the pcs of testLogin and main at which the outcome check of the current
\* target is over
CheckOver == {"shotFinal", "catch", "finally", "returned", "rejected"}

InLogin == prog = "login" /\ idx <= Len(sites)

\* C1: every target that main has finished with gave exactly one result, for
\* that target, in input order; at the end there is one result per target.
C1_OneResultPerTarget ==
    prog = "login" =>
        /\ Len(results) <= Len(sites)
        /\ \A i \in 1..Len(results) :
              results[i].returned /\ results[i].site = sites[i].name
        /\ pc = "exit" => Len(results) = Len(sites)

\* C2: a session created for target T is released exactly once, and before
\* the main loop goes on to target T+1: never more closes than sessions, and
\* no session of a target the loop has left is still unreleased.
C2_SessionReleasedExactlyOnce ==
    prog = "login" =>
        \A t \in 1..Len(sites) :
            /\ created[t] <= 1
            /\ closed[t] <= created[t]
            /\ t < idx => closed[t] = created[t]

\* C3: when main of index.ts has ended, a browser that createBrowser returned
\* has been closed.
C3_BotBrowserClosedOnExit ==
    (prog = "bot" /\ pc = "exit" /\ browser # "none") => browser = "closed"

\* C4: with both indicators defined, the wait that resolves first decides the
\* verdict: the success wait gives success = true / 'Login successful', the
\* failure wait gives success = false / 'Login failed - error message detected'.
C4_FirstSignalDecides ==
    (InLogin /\ pc \in CheckOver /\ Site.failureIndicator) =>
        /\ firstSettled = <<"success", "resolved">> =>
              success /\ message = MsgSuccessful
        /\ firstSettled = <<"failure", "resolved">> =>
              ~success /\ message = MsgFailed

\* C4 witness: the failure wait resolved first, the success wait resolved
\* after it, and the verdict is the failure verdict.
C4_Witness ==
    /\ InLogin /\ pc = "shotFinal" /\ Site.failureIndicator
    /\ firstSettled = <<"failure", "resolved">>
    /\ pSucc = "resolved"
    /\ ~success /\ message = MsgFailed

\* C5: when both bounded waits have timed out, the outcome check has made the
\* one existence check of the success indicator, and the verdict is
\* 'Login appears successful' (success) or 'Login status unclear' (no success).
C5_TimeoutFallsBackToExistenceCheck ==
    (InLogin /\ pc \in CheckOver /\ Site.failureIndicator
       /\ pSucc = "TimeoutError" /\ pFail = "TimeoutError") =>
        /\ polled
        /\ \/ success /\ message = MsgAppears
           \/ ~success /\ message = MsgUnclear

\* C6: without a failure indicator the verdict is not decided while the wait
\* for the success indicator is pending, and a success indicator that the
\* wait saw within its timeout gives success = true.
C6_NoFailureIndicatorIsBoundedWait ==
    (InLogin /\ pc \in CheckOver /\ ~Site.failureIndicator /\ pSucc # "none") =>
        /\ pc = "shotFinal" => pSucc # "pending"
        /\ pSucc = "resolved" => success

\* the outcome check of the current target raised and its catch block set
\* the verdict
CheckRaised == message[1] = MsgCheckError(NoError)[1]

\* C7: when the outcome check raised, testLogin still attempts the final
\* screenshot, closes the browser, and returns a result with success = false
\* and the message that embeds the error of the check.
C7_CheckErrorBecomesVerdict ==
    (InLogin /\ pc = "returned" /\ CheckRaised) =>
        /\ \E i \in 1..Len(shots) : shots[i][1] = "final"
        /\ browser = "closed"
        /\ ret.returned /\ ~ret.success /\ ret.message = message

\* C8: the main loop is never stopped by a target: once the program has
\* loaded, before main ends there is always a next step, and main ends only
\* after every target was started and the completion message was printed.
C8_LoopNeverStops ==
    prog = "login" =>
        /\ pc \notin {"exit", "crashed"} => ENABLED Next
        /\ pc = "exit" => started = 1..Len(sites) /\ completed

\* C8 witness: the first of two targets threw, the second was still started,
\* and main ran to its completion message.
C8_Witness ==
    /\ prog = "login" /\ pc = "exit" /\ completed
    /\ Len(sites) = 2 /\ Len(results) = 2
    /\ ~results[1].returned
    /\ 2 \in started

\* C9: a screenshot taken in an error handler (the catch block of testLogin,
\* the catch block of testGoogleSearch) never lets its exception leave the
\* handler.
C9_ErrorPathCaptureNeverEscapes ==
    /\ (prog = "login" /\ pc = "finally") => exc = NoError
    /\ exc # "g:catch"

\* C10: no stored screenshot is ever written again: two captures give two
\* distinct paths.
C10_NoArtifactOverwritten == overwritten = {}

\* the targets whose call of testLogin has returned or thrown
Settled == 1..Len(results)

\* C11: targets run one after the other, in list order: testLogin for a target
\* is started, and its session requested, only after testLogin has returned
\* or thrown for every earlier target; at most one target is in progress.
C11_TargetsRunSequentially ==
    prog = "login" =>
        /\ \A t \in started : \A k \in 1..(t - 1) : k \in started /\ k \in Settled
        /\ \A t \in 1..Len(sites) : created[t] > 0 => t \in started
        /\ Cardinality(started \ Settled) <= 1

\* C11 witness: the second target is in progress (its session is requested)
\* after the first one has settled.
C11_Witness ==
    /\ prog = "login" /\ pc = "connect" /\ idx = 2
    /\ started = {1, 2} /\ Settled = {1}
    /\ created[2] = 1

\* a credential that is missing or empty
Missing(v) == v \in {Undefined, ""}

ConfigMissing ==
    Missing(env.BROWSERBASE_API_KEY) \/ Missing(env.BROWSERBASE_PROJECT_ID)

\* C12: with BROWSERBASE_API_KEY or BROWSERBASE_PROJECT_ID missing or empty
\* the program stops at startup with the configuration error of the first
\* missing credential, before any session is requested and before any target
\* is started; with both present no configuration error is raised.
C12_MissingCredentialIsFatalAtStartup ==
    /\ ConfigMissing =>
          /\ pc \in {"load", "crashed"}
          /\ started = {} /\ \A i \in 1..MaxSites : created[i] = 0
          /\ pc = "crashed" =>
                exc = IF Missing(env.BROWSERBASE_API_KEY) THEN ErrApiKey
                                                          ELSE ErrProjectId
    /\ ~ConfigMissing => pc # "crashed" /\ exc \notin {ErrApiKey, ErrProjectId}

\* C12 witness: the project id is set but empty and startup has failed on it.
C12_Witness ==
    /\ pc = "crashed" /\ exc = ErrProjectId
    /\ env.BROWSERBASE_API_KEY = "k" /\ env.BROWSERBASE_PROJECT_ID = ""

\* a screenshot attempt of the current target, by kind and result
Shot(kind, ok) == \E i \in 1..Len(shots) : shots[i] = <<kind, ok>>

\* C13: a failed screenshot in testLogin never changes the target's outcome:
\* the result is never the error of the pre-submit screenshot, and when the
\* final screenshot fails the result still carries the verdict of the outcome
\* check.
C13_CaptureFailureNeverChangesOutcome ==
    (prog = "login" /\ pc = "finally") =>
        /\ ret.message # MsgTestError("shotBefore")
        /\ Shot("final", FALSE) => ret.success = success /\ ret.message = message

\* the calls of the try block up to the outcome check, in the order of the
\* specification; the pre-login step only for a site that defines one
Expected(site) ==
    <<"goto">> \o (IF site.beforeLogin THEN <<"beforeLogin">> ELSE <<>>) \o
    <<"waitUsername", "typeUsername", "waitPassword", "typePassword",
      "shotBefore", "waitForNavigation", "click", "check">>

\* the entries of the log made inside the try block, before the final
\* screenshot, the catch block and the finally block
AfterTry == {"shotFinal", "shotError", "close"}
TryLen == Cardinality({i \in 1..Len(steps) : steps[i][1] \notin AfterTry})

\* the step of the sequence that raised, if any (a rejected navigation wait
\* does not raise)
Raised == {i \in 1..TryLen : ~steps[i][2] /\ steps[i][1] # "waitForNavigation"}

\* C14: the steps of a target run in the fixed order navigate, optional
\* pre-login step, wait and type username, wait and type password, pre-submit
\* screenshot, submit, outcome check; a step that raises is the last one of
\* the sequence (no later step, no outcome check), and the result of the
\* target, once the catch block has run and for the rest of the target's
\* run, is success=false with a message that embeds the error of that step.
C14_StepsInOrderAndFailureAborts ==
    (prog = "login" /\ idx \in started) =>
        /\ TryLen <= Len(Expected(Site))
        /\ \A i \in 1..Len(steps) :
              IF i <= TryLen THEN steps[i][1] = Expected(Site)[i]
                             ELSE steps[i][1] \in AfterTry
        /\ \A i \in Raised :
              /\ i = TryLen
              /\ pc \in {"catch", "finally", "returned", "rejected", "loop",
                         "exit"}
              /\ pc # "catch" =>
                    /\ ret.returned /\ ~ret.success
                    /\ ret.message = MsgTestError(steps[i][1])
              /\ pc = "returned" => results[idx] = Outcome(ret)

\* positions of the log
At(name) == {i \in 1..Len(steps) : steps[i][1] = name}

\* C15: every target that entered the try block and whose browser was closed
\* had a screenshot to its screenshotPath attempted (the final one, or the
\* one of the catch block after a failure), after the verdict or the failure
\* was determined and before browser.close(): whatever the outcome.
C15_FinalScreenshotBeforeClose ==
    (prog = "login" /\ idx \in started) =>
        /\ (pc \in {"finally", "returned"} \/ At("close") # {}) =>
              At("shotFinal") \cup At("shotError") # {}
        /\ \A c \in At("close") : c = Len(steps) /\ steps[c - 1][1] \in
                                     {"shotFinal", "shotError"}
        /\ \A f \in At("shotFinal") \cup At("shotError") : f > TryLen
        /\ \A f \in At("shotFinal") : f = TryLen + 1 /\ steps[TryLen][1] = "check"
                                      /\ Raised = {}
        /\ \A f \in At("shotError") : Raised # {} \/ At("shotFinal") # {}
        /\ (steps # <<>> /\ pc \in {"returned", "rejected"}) => At("close") # {}

\* C15 witness: the outcome check gave the verdict "unclear" (no indicator
\* seen), the final screenshot was attempted and the browser was then closed.
C15_Witness ==
    /\ prog = "login" /\ pc = "returned"
    /\ ret.message = MsgUnclear
    /\ steps[Len(steps) - 1][1] = "shotFinal" /\ steps[Len(steps)][1] = "close"

\* C16: in the submit step the navigation wait is started together with the
\* click and its failure is swallowed: when the click resolves the outcome
\* check is what runs next, whether or not the navigation wait resolved; the
\* step fails, with the click's error, only when the click itself rejects.
C16_NavigationWaitIsBestEffort ==
    (prog = "login" /\ idx \in started) =>
        /\ \A i \in At("click") :
              /\ i > 1 /\ steps[i - 1][1] = "waitForNavigation"
              /\ IF steps[i][2]
                 THEN \/ /\ i = Len(steps) /\ pc = "raceStart" /\ exc = NoError
                         /\ ENABLED RaceStart
                      \/ /\ i < Len(steps) /\ steps[i + 1] = <<"check", TRUE>>
                 ELSE /\ At("check") = {}
                      /\ pc # "raceStart"
                      /\ pc = "catch" => exc = "click"
        /\ exc # "waitForNavigation"
        /\ ret.returned => ret.message # MsgTestError("waitForNavigation")

\* C16 witness: the navigation wait failed, the click succeeded, and the
\* outcome check ran to a verdict.
C16_Witness ==
    /\ prog = "login" /\ pc = "shotFinal"
    /\ \E i \in At("click") : steps[i][2] /\ ~steps[i - 1][2]
    /\ message # NoMessage

\* the race of the current target has settled and the page is still open:
\* a wait that has not settled yet may settle
RaceDecided ==
    prog = "login" /\ pc \in WaitsLive /\ race \notin {Pending, <<"none">>}

\* one of the two waits settles in this step
WaitSettles == pSucc' # pSucc \/ pFail' # pFail

\* browser.close() is called in this step
Closes == closed' # closed

\* C17: once the race has settled, a wait that settles afterwards (resolves,
\* times out or rejects) is ignored, wherever the run is: at the existence
\* check, at the final screenshot, at the screenshot of the catch block or
\* at browser.close().  The step in which it settles changes neither the
\* race's outcome nor the verdict, raises nothing in the target's run and
\* does not move the run; a wait still pending when the browser is closed is
\* rejected by the close, and that rejection changes neither the verdict nor
\* the result returned and is not the error of the run; and the run's next
\* statement (up to the final or the error screenshot, and then
\* browser.close()) never waits for a pending wait.
C17_AbandonedWaitIsIgnored ==
    /\ [][(RaceDecided /\ WaitSettles /\ ~Closes) =>
             UNCHANGED <<race, success, message, exc, ret, pc, steps, shots,
                         results, sessionVars>>]_vars
    /\ [][(RaceDecided /\ Closes) =>
             /\ pc = "finally"
             /\ UNCHANGED <<race, success, message>>
             /\ pc' = "returned" =>
                   /\ UNCHANGED <<ret, exc>>
                   /\ results' = Append(results, Outcome(ret))
             /\ pc' # "returned" => pc' = "rejected" /\ exc' = "browser.close"]_vars
    /\ [](RaceDecided =>
             ENABLED (RaceAwait \/ Exists \/ ShotFinal \/ Catch \/ Finally))
    /\ []((prog = "login" /\ pc = "finally") => ENABLED Finally)

\* C17 witness: the success wait won the race, the failure wait was still
\* pending when browser.close() was called and was rejected by it, and the
\* result returned is the success verdict with the session released.
C17_Witness ==
    /\ prog = "login" /\ pc = "returned"
    /\ firstSettled = <<"success", "resolved">> /\ pFail = "TargetCloseError"
    /\ race = <<"fulfilled", "success">>
    /\ ret.returned /\ ret.success /\ ret.message = MsgSuccessful
    /\ exc = NoError /\ closed[idx] = 1
    /\ results[idx] = Outcome(ret)

\* the errors of the awaited calls of one test site in main of the bot run
SiteErrors == {"b:goto", "b:shot", "b:title"}

\* C18: in the bot-detection run a failure while processing one test site
\* (navigation, screenshot, page.title) does not keep the remaining test
\* sites and the Google search test from being run: the run ends only after
\* every test site was started and the loop was left for testGoogleSearch.
C18_SiteFailureDoesNotStopBotRun ==
    (prog = "bot" /\ pc = "exit" /\ exc \in SiteErrors) =>
        started = 1..Len(sites) /\ idx > Len(sites)

\* testLogin has built the result it returns for the current target
HasResult == prog = "login" /\ pc \in {"finally", "returned"} /\ ret.returned

\* C19: testLogin returns success = true only if the success indicator was
\* observed in that target's run: its wait won the race ('Login successful')
\* or the existence check found it ('Login appears successful'); never when
\* the failure wait won the race, a step raised or the outcome check raised.
C19_SuccessOnlyIfIndicatorObserved ==
    (HasResult /\ ret.success) =>
        /\ succPresent
        /\ \/ /\ ret.message = MsgSuccessful
              /\ race = <<"fulfilled", "success">> /\ pSucc = "resolved"
           \/ /\ ret.message = MsgAppears
              /\ race = <<"fulfilled", "null">> /\ polled
        /\ firstSettled # <<"failure", "resolved">>
        /\ Raised = {} /\ At("shotError") = {}
        /\ ~CheckRaised

\* C19 witness: no wait decided, the existence check found the success
\* indicator and the target was returned as successful.
C19_Witness ==
    /\ HasResult /\ pc = "returned"
    /\ ret.success /\ ret.message = MsgAppears /\ polled

\* the result comes from the catch block of testLogin
ErrorResult == ret.message[1] = MsgTestError(NoError)[1]

\* C20 (as stated): every result returned by testLogin carries a
\* screenshotPath to which a capture completed successfully in that target's
\* run, before the browser was closed.
C20_ResultPathWasWritten ==
    HasResult =>
        /\ ret.screenshotPath = screenshotPath(Site)
        /\ Shot("final", TRUE) \/ Shot("error", TRUE)

\* C20 (amended): every result returned by testLogin carries the target's
\* screenshotPath, and a capture to that path was attempted in that target's
\* run before the browser was closed; the capture completed successfully
\* whenever the result is a verdict of the outcome check, while for a result
\* of the catch block the capture may have failed, and then nothing was
\* written in that run.
C20_ResultPathWasAttempted ==
    HasResult =>
        /\ ret.screenshotPath = screenshotPath(Site)
        /\ At("shotFinal") \cup At("shotError") # {}
        /\ \A c \in At("close") :
              \A f \in At("shotFinal") \cup At("shotError") : f < c
        /\ IF ErrorResult
           THEN At("shotError") # {} /\ ~Shot("final", TRUE)
           ELSE Shot("final", TRUE) /\ At("shotError") = {}
        /\ (Shot("final", TRUE) \/ Shot("error", TRUE)) =>
              ret.screenshotPath \in files

\* C20 witness: a step raised, the screenshot of the catch block failed too,
\* and the error result was returned with the path nothing was written to.
C20_Witness ==
    /\ HasResult /\ pc = "returned" /\ ErrorResult
    /\ Shot("error", FALSE) /\ ~Shot("error", TRUE) /\ ~Shot("final", TRUE)
    /\ ret.screenshotPath = screenshotPath(Site)

====
